---- MODULE Spec2Model ----
(***************************************************************************)
(* Model of the HDHomeRun channel-scan script (src/main.py): the scan      *)
(* output parser parse_results_info with its field extractors, the tuner   *)
(* query loop query_tuner, and main with its device selection and its CSV  *)
(* export.                                                                 *)
(*                                                                         *)
(* Text is modelled by TLA+ strings; Len, SubSeq and \o act on them        *)
(* character by character, as Python's len, slicing and + do on str.       *)
(* A Python dict is a function from its keys to its values; a Python list  *)
(* is a sequence.                                                          *)
(***************************************************************************)
EXTENDS Integers, Sequences, FiniteSets, TLC

(***************************************************************************)
(* Python str methods and the two regular expressions used by the script.  *)
(***************************************************************************)

\* str.split() and str.strip() treat these characters as whitespace.
Whitespace == {" ", "\t", "\n", "\r", "\f"}

\* \d of the re module (ASCII digits).
Digits == {"0", "1", "2", "3", "4", "5", "6", "7", "8", "9"}

\* \w of the re module (ASCII letters, digits and underscore).
WordChars ==
    Digits \cup {"_"} \cup
    {"a", "b", "c", "d", "e", "f", "g", "h", "i", "j", "k", "l", "m",
     "n", "o", "p", "q", "r", "s", "t", "u", "v", "w", "x", "y", "z"} \cup
    {"A", "B", "C", "D", "E", "F", "G", "H", "I", "J", "K", "L", "M",
     "N", "O", "P", "Q", "R", "S", "T", "U", "V", "W", "X", "Y", "Z"}

\* s[i-1] of Python (1-based here): the one-character string at position i.
CharAt(s, i) == SubSeq(s, i, i)

\* s[n:] of Python: s without its first n characters.
Drop(s, n) == SubSeq(s, n + 1, Len(s))

\* str.startswith(prefix)
startswith(s, prefix) ==
    Len(s) >= Len(prefix) /\ SubSeq(s, 1, Len(prefix)) = prefix

\* `sub in s` for two strings: sub occurs somewhere in s.
str_contains(s, sub) ==
    \E i \in 1..(Len(s) - Len(sub) + 1) : SubSeq(s, i, i + Len(sub) - 1) = sub

\* Number of consecutive characters of s, from position i on, that are in
\* class (inside TRUE) or outside it (inside FALSE).
RECURSIVE RunLen(_, _, _, _)
RunLen(s, i, class, inside) ==
    IF i > Len(s) \/ ((CharAt(s, i) \in class) # inside) THEN 0
    ELSE 1 + RunLen(s, i + 1, class, inside)

\* Length of the longest prefix of s made of characters of class.
SpanLen(s, class) == RunLen(s, 1, class, TRUE)

\* Length of the longest prefix of s made of characters outside class.
SpanLenNot(s, class) == RunLen(s, 1, class, FALSE)

\* str.split(): the maximal runs of non-whitespace characters, in order.
RECURSIVE split_ws(_)
split_ws(s) ==
    LET rest == Drop(s, SpanLen(s, Whitespace))
        n    == SpanLenNot(rest, Whitespace)
    IN  IF rest = "" THEN << >>
        ELSE << SubSeq(rest, 1, n) >> \o split_ws(Drop(rest, n))

\* str.split(sep) for a one-character sep: the pieces between the
\* occurrences of sep, empty pieces included.
RECURSIVE split_sep(_, _)
split_sep(s, sep) ==
    LET n == SpanLenNot(s, {sep})
    IN  IF n = Len(s) THEN << s >>
        ELSE << SubSeq(s, 1, n) >> \o split_sep(Drop(s, n + 1), sep)

\* str.strip(): s without leading and trailing whitespace.
strip(s) ==
    LET a == SpanLen(s, Whitespace)
        t == Drop(s, a)
        e == IF t = "" THEN 0
             ELSE CHOOSE j \in 1..Len(t) :
                    /\ CharAt(t, j) \notin Whitespace
                    /\ \A k \in (j + 1)..Len(t) : CharAt(t, k) \in Whitespace
    IN  SubSeq(t, 1, e)

\* The empty dict {}.
EmptyDict == << >>

\* dict.update(new_data): keys of new_data overwrite, the others are kept.
dict_update(d, new_data) ==
    [k \in (DOMAIN d) \cup (DOMAIN new_data) |->
        IF k \in DOMAIN new_data THEN new_data[k] ELSE d[k]]

(***************************************************************************)
(* Regular expression matching, for the two patterns of the script.  A     *)
(* position is where the next character is read (1-based); 0 says that the *)
(* match has failed.                                                       *)
(***************************************************************************)

\* A literal of the pattern at position pos: the position after it.
MatchLit(s, pos, lit) ==
    IF pos = 0 \/ pos + Len(lit) - 1 > Len(s) THEN 0
    ELSE IF SubSeq(s, pos, pos + Len(lit) - 1) = lit THEN pos + Len(lit)
    ELSE 0

\* A greedy class+ (\w+ or \d+) at position pos: the position after the
\* longest run.  In both patterns the item that follows a class+ starts
\* with a character outside the class (or the pattern ends), so the longest
\* run is the only one the regex engine can settle on.
MatchRun(s, pos, class) ==
    IF pos = 0 \/ pos > Len(s) THEN 0
    ELSE LET n == SpanLen(Drop(s, pos - 1), class)
         IN  IF n = 0 THEN 0 ELSE pos + n

(***************************************************************************)
(* The field extractors.                                                   *)
(***************************************************************************)

\* get_us_bcast: re.search(r"us-bcast:(\d+)", line), group 1 of the leftmost
\* match, "" without a match.
get_us_bcast(line) ==
    LET hits == {i \in 1..Len(line) :
                    MatchRun(line, MatchLit(line, i, "us-bcast:"), Digits) # 0}
    IN  IF hits = {} THEN ""
        ELSE LET i == CHOOSE h \in hits : \A g \in hits : h <= g
                 a == MatchLit(line, i, "us-bcast:")
             IN  SubSeq(line, a, MatchRun(line, a, Digits) - 1)

\* parse_frequency: the second whitespace-delimited token and the channel.
parse_frequency(line) ==
    LET parts == split_ws(line)
    IN  IF Len(parts) >= 2
        THEN ("Frequency" :> parts[2]) @@
             ("US-Bcast Channel" :> get_us_bcast(line))
        ELSE EmptyDict

\* parse_lock: re.match(r"LOCK: (\w+) \(ss=(\d+) snq=(\d+) seq=(\d+)\)", line).
\* re.match anchors the pattern at the start of the line only.
parse_lock(line) ==
    LET g1 == MatchLit(line, 1, "LOCK: ")
        e1 == MatchRun(line, g1, WordChars)
        g2 == MatchLit(line, e1, " (ss=")
        e2 == MatchRun(line, g2, Digits)
        g3 == MatchLit(line, e2, " snq=")
        e3 == MatchRun(line, g3, Digits)
        g4 == MatchLit(line, e3, " seq=")
        e4 == MatchRun(line, g4, Digits)
        en == MatchLit(line, e4, ")")
    IN  IF en # 0
        THEN ("Lock" :> SubSeq(line, g1, e1 - 1)) @@
             ("Signal Strength (dBmV)" :> SubSeq(line, g2, e2 - 1)) @@
             ("Signal to Noise Quality" :> SubSeq(line, g3, e3 - 1)) @@
             ("Symbol Error Quality" :> SubSeq(line, g4, e4 - 1))
        ELSE EmptyDict

\* parse_tsid: exactly two whitespace-delimited tokens.
parse_tsid(line) ==
    LET parts == split_ws(line)
    IN  IF Len(parts) = 2 THEN ("TSID" :> parts[2]) ELSE EmptyDict

\* Variant of parse_program_raises: the two pieces are taken by unpacking
\* the split, which raises unless there are exactly two.
parse_program_raises_unpack(line) == Len(split_sep(line, ":")) # 2

\* parse_program raises IndexError at parts[0].split()[-1] when the text
\* before the only colon holds no token.
parse_program_raises(line) ==
    LET parts == split_sep(line, ":")
    IN  Len(parts) = 2 /\ split_ws(parts[1]) = << >>

\* Variant of parse_program: the line is split at its first colon only
\* (split(":", 1)), so that later colons belong to the name.
parse_program_first_colon(line) ==
    LET parts == split_sep(line, ":")
    IN  IF Len(parts) >= 2
        THEN LET toks == split_ws(parts[1])
                 program_num  == toks[Len(toks)]
                 program_name ==
                     strip(SubSeq(line, Len(parts[1]) + 2, Len(line)))
             IN  (("Program" \o program_num) :> program_name)
        ELSE EmptyDict

\* parse_program: the line split on ":"; with exactly two pieces the key is
\* "Program" + the last token of the first and the value the second, stripped.
parse_program(line) ==
    LET parts == split_sep(line, ":")
    IN  IF Len(parts) = 2
        THEN LET toks == split_ws(parts[1])
                 program_num  == toks[Len(toks)]
                 program_name == strip(parts[2])
             IN  (("Program" \o program_num) :> program_name)
        ELSE EmptyDict

(***************************************************************************)
(* parse_results_info: the state of one call and its steps.                *)
(***************************************************************************)

VARIABLES
    scan_results,    \* parse_results_info: the argument, a list of lines
    p_pc,            \* "idle" outside a call, "loop" in the for loop,
                     \* "raised" when an exception has left the call
    line_no,         \* position of the line the for loop reads next
    frequency_info,  \* the dict being filled for the current frequency
    parsed_data,     \* the list of finished dicts
    returned,        \* the values returned by the calls made so far
    tuners,          \* query_tuner: the argument, a list of tuner numbers
    q_pc,            \* "idle", "loop", "returned", or "raised"
    tuner_no,        \* position in tuners of the tuner the for loop takes next
    lines,           \* the lines read from the last scan command
    result,          \* the value query_tuner returned
    popen_log,       \* the scan commands run: tuner and what came of it
    printed,         \* the outcome messages printed, in order
    m_pc,            \* main: "idle" outside a run, else the place reached
    retry_count,     \* select_device: the automatic retries made
    discovered_devices, \* select_device: the devices of the last discovery
    discover_log,    \* select_device: what started each discovery of the
                     \* call and how many devices it found
    selected_device, \* main: the value select_device returned
    results,         \* main: the lines query_tuner returned
    main_parsed_data, \* main: its own parsed_data, the records to export
    caught,          \* main: the exception its except clause took, or "none"
    file_opened,     \* the CSV file was opened for writing (and so created)
    written_rows     \* the rows handed to the CSV writer, in order

pvars == << scan_results, p_pc, line_no, frequency_info, parsed_data, returned >>
qvars == << tuners, q_pc, tuner_no, lines, result, popen_log, printed >>
mvars == << m_pc, retry_count, discovered_devices, discover_log,
            selected_device, results, main_parsed_data, caught,
            file_opened, written_rows >>
vars  == << pvars, qvars, mvars >>

\* main is not running: its locals have their first values and there is no
\* CSV file.
MainIdle ==
    /\ m_pc = "idle"
    /\ retry_count = 0
    /\ discovered_devices = << >>
    /\ discover_log = << >>
    /\ selected_device = ""
    /\ results = << >>
    /\ main_parsed_data = << >>
    /\ caught = "none"
    /\ file_opened = FALSE
    /\ written_rows = << >>

\* Longest line list handed to parse_results_info.
MaxLines == 3

\* Number of calls of parse_results_info made on one line list.
MaxPasses == 2

\* Lines of scan output, as readlines() yields them.
LinePool ==
    { "SCANNING: 489000000 (us-bcast:3)\n",
      "SCANNING: 495000000 (us-bcast:4)\n",
      "SCANNING:\n",
      "LOCK: 8vsb (ss=87 snq=100 seq=100)\n",
      "LOCK: none\n",
      "TSID: 12345\n",
      "TSID: 1 2\n",
      "PROGRAM 1: Channel 5 News\n",
      "PROGRAM 2: ProgramName2\n",
      "PROGRAM 3: A: B\n",
      "scanning: 489000000 (us-bcast:3)\n",
      "garbage\n" }

\* All lists of at most n lines of the pool.
LineLists(n) == UNION { [1..k -> LinePool] : k \in 0..n }

\* Lines 350-362, the exception: the only extractor that can raise is
\* parse_program, reached for the lines of the fourth branch.
line_raises(line) ==
    /\ ~ startswith(line, "SCANNING:")
    /\ ~ startswith(line, "LOCK")
    /\ ~ startswith(line, "TSID")
    /\ startswith(line, "PROGRAM")
    /\ parse_program_raises(line)

\* Variant of parsed_data_after: the current dict is appended at a
\* SCANNING: line whether it is empty or not.
parsed_data_after_always(data, info, line) ==
    IF startswith(line, "SCANNING:") THEN Append(data, info) ELSE data

\* Variant of parsed_data_after: the current dict is also appended as soon
\* as a PROGRAM line is read.
parsed_data_after_eager(data, info, line) ==
    IF (startswith(line, "SCANNING:") \/ startswith(line, "PROGRAM"))
       /\ info # EmptyDict
    THEN Append(data, info)
    ELSE data

\* Variant of parsed_data_after: a dict without a Frequency is not appended.
parsed_data_after_needs_frequency(data, info, line) ==
    IF startswith(line, "SCANNING:") /\ "Frequency" \in DOMAIN info
    THEN Append(data, info)
    ELSE data

\* Variant of parsed_data_after: the current dict is put at the head of the
\* list (insert(0, ...)) instead of its end.
parsed_data_after_prepend(data, info, line) ==
    IF startswith(line, "SCANNING:") /\ info # EmptyDict
    THEN << info >> \o data
    ELSE data

\* Variant of parsed_data_after: the list holds the current dict itself and
\* not a finished one, so that the fields of a later LOCK, TSID or PROGRAM
\* line also reach the record pushed last.
parsed_data_after_shared(data, info, line) ==
    IF startswith(line, "SCANNING:")
    THEN IF info # EmptyDict THEN Append(data, info) ELSE data
    ELSE IF data = << >> THEN data
    ELSE [ data EXCEPT ![Len(data)] =
             dict_update(@, IF startswith(line, "LOCK") THEN parse_lock(line)
                            ELSE IF startswith(line, "TSID")
                                 THEN parse_tsid(line)
                            ELSE IF startswith(line, "PROGRAM")
                                 THEN parse_program(line)
                            ELSE EmptyDict) ]

\* Lines 350-362, parsed_data after the line: the current dict is appended
\* at a SCANNING: line when it is not empty.
parsed_data_after(data, info, line) ==
    IF startswith(line, "SCANNING:") /\ info # EmptyDict
    THEN Append(data, info)
    ELSE data

\* Variant of frequency_info_after: the fields of a LOCK, TSID or PROGRAM
\* line replace the current dict instead of being merged into it.
frequency_info_after_replace(info, line) ==
    IF startswith(line, "SCANNING:") THEN parse_frequency(line)
    ELSE IF startswith(line, "LOCK") THEN parse_lock(line)
    ELSE IF startswith(line, "TSID") THEN parse_tsid(line)
    ELSE IF startswith(line, "PROGRAM") THEN parse_program(line)
    ELSE info

\* Variant of frequency_info_after: the fields of a SCANNING: line are
\* merged into the current dict instead of replacing it.
frequency_info_after_carry(info, line) ==
    IF startswith(line, "SCANNING:")
    THEN dict_update(info, parse_frequency(line))
    ELSE IF startswith(line, "LOCK") THEN dict_update(info, parse_lock(line))
    ELSE IF startswith(line, "TSID") THEN dict_update(info, parse_tsid(line))
    ELSE IF startswith(line, "PROGRAM")
         THEN dict_update(info, parse_program(line))
    ELSE info

\* Variant of frequency_info_after: a line of no known prefix empties the
\* current dict.
frequency_info_after_unknown_clears(info, line) ==
    IF startswith(line, "SCANNING:") THEN parse_frequency(line)
    ELSE IF startswith(line, "LOCK") THEN dict_update(info, parse_lock(line))
    ELSE IF startswith(line, "TSID") THEN dict_update(info, parse_tsid(line))
    ELSE IF startswith(line, "PROGRAM")
         THEN dict_update(info, parse_program(line))
    ELSE EmptyDict

\* Variant of frequency_info_after: a SCANNING: line that yields no field
\* leaves the current dict as it is.
frequency_info_after_bare_keeps(info, line) ==
    IF startswith(line, "SCANNING:")
    THEN IF parse_frequency(line) = EmptyDict THEN info
         ELSE parse_frequency(line)
    ELSE IF startswith(line, "LOCK") THEN dict_update(info, parse_lock(line))
    ELSE IF startswith(line, "TSID") THEN dict_update(info, parse_tsid(line))
    ELSE IF startswith(line, "PROGRAM")
         THEN dict_update(info, parse_program(line))
    ELSE info

\* Lines 350-362, frequency_info after the line.
frequency_info_after(info, line) ==
    IF startswith(line, "SCANNING:") THEN parse_frequency(line)
    ELSE IF startswith(line, "LOCK") THEN dict_update(info, parse_lock(line))
    ELSE IF startswith(line, "TSID") THEN dict_update(info, parse_tsid(line))
    ELSE IF startswith(line, "PROGRAM")
         THEN dict_update(info, parse_program(line))
    ELSE info

\* Variant of parsed_data_at_end: the last dict is appended whether it is
\* empty or not.
parsed_data_at_end_always(data, info) == Append(data, info)

\* Lines 364-367, the list returned: the last dict is appended when it is
\* not empty.
parsed_data_at_end(data, info) ==
    IF info # EmptyDict THEN Append(data, info) ELSE data

\* Variant of parsed_data_at_start: the list outlives the call, as a
\* module-level list or a mutable default argument would.
parsed_data_at_start_kept(data) == data

\* Lines 346-347, the locals at the start of a call.
parsed_data_at_start(data) == << >>

frequency_info_at_start(info) == EmptyDict

\* parse_results_info as a function of its argument: the loop of lines
\* 349-362 over the lines, then the flush of lines 364-367.
RECURSIVE parse_loop(_, _, _)
parse_loop(ls, data, info) ==
    IF ls = << >> THEN parsed_data_at_end(data, info)
    ELSE parse_loop(Tail(ls),
                    parsed_data_after(data, info, Head(ls)),
                    frequency_info_after(info, Head(ls)))

\* The call raises when one of its lines makes parse_program raise.
parse_results_info_raises(ls) == \E i \in DOMAIN ls : line_raises(ls[i])

parse_results_info(ls) ==
    parse_loop(ls, parsed_data_at_start(<< >>),
               frequency_info_at_start(EmptyDict))

\* A call of parse_results_info(scan_results) starts.
parse_enter ==
    /\ p_pc = "idle"
    /\ Len(returned) < MaxPasses
    /\ p_pc' = "loop"
    /\ line_no' = 1
    /\ parsed_data' = parsed_data_at_start(parsed_data)
    /\ frequency_info' = frequency_info_at_start(frequency_info)
    /\ UNCHANGED << scan_results, returned, qvars, mvars >>

\* One turn of the for loop.
parse_line ==
    /\ p_pc = "loop"
    /\ line_no <= Len(scan_results)
    /\ LET line == scan_results[line_no]
       IN  IF line_raises(line)
           THEN /\ p_pc' = "raised"
                /\ UNCHANGED << line_no, frequency_info, parsed_data >>
           ELSE /\ parsed_data' =
                       parsed_data_after(parsed_data, frequency_info, line)
                /\ frequency_info' = frequency_info_after(frequency_info, line)
                /\ line_no' = line_no + 1
                /\ p_pc' = "loop"
    /\ UNCHANGED << scan_results, returned, qvars, mvars >>

\* The loop is over: the last dict is flushed and the list returned.
parse_return ==
    /\ p_pc = "loop"
    /\ line_no > Len(scan_results)
    /\ parsed_data' = parsed_data_at_end(parsed_data, frequency_info)
    /\ returned' = Append(returned, parsed_data')
    /\ p_pc' = "idle"
    /\ UNCHANGED << scan_results, line_no, frequency_info, qvars, mvars >>

QueryIdle ==
    /\ tuners = << >>
    /\ q_pc = "idle"
    /\ tuner_no = 1
    /\ lines = << >>
    /\ result = << >>
    /\ popen_log = << >>
    /\ printed = << >>

InitParse ==
    /\ scan_results \in LineLists(MaxLines)
    /\ p_pc = "idle"
    /\ line_no = 1
    /\ frequency_info = EmptyDict
    /\ parsed_data = << >>
    /\ returned = << >>
    /\ QueryIdle
    /\ MainIdle

NextParse == parse_enter \/ parse_line \/ parse_return

SpecParse == InitParse /\ [][NextParse]_vars

\* Number of LOCK, TSID and PROGRAM lines that follow the SCANNING: line of
\* a one-frequency scan.
MaxFieldLines == 4

\* The well-formed lines of the pool, by kind.
StartLines ==
    { "SCANNING: 489000000 (us-bcast:3)\n",
      "SCANNING: 495000000 (us-bcast:4)\n" }

ProgramLines ==
    { "PROGRAM 1: Channel 5 News\n", "PROGRAM 2: ProgramName2\n" }

FieldLines ==
    { "LOCK: 8vsb (ss=87 snq=100 seq=100)\n", "TSID: 12345\n" }
        \cup ProgramLines

\* Scans of one frequency, as the docstring example of lines 331-345: a
\* SCANNING: line, then LOCK, TSID and PROGRAM lines, each program listed
\* once.
RecordScans ==
    { << s >> \o f :
        s \in StartLines,
        f \in { g \in UNION { [1..k -> FieldLines] : k \in 0..MaxFieldLines } :
                  \A i, j \in DOMAIN g :
                      (g[i] \in ProgramLines /\ g[i] = g[j]) => i = j } }

InitRecord ==
    /\ scan_results \in RecordScans
    /\ p_pc = "idle"
    /\ line_no = 1
    /\ frequency_info = EmptyDict
    /\ parsed_data = << >>
    /\ returned = << >>
    /\ QueryIdle
    /\ MainIdle

SpecRecord == InitRecord /\ [][NextParse]_vars

\* Lock lines handed to parse_lock, given by their pieces: the text in
\* place of the word, of the three numbers, and what follows the closing
\* parenthesis.  The examples of the docstring (lines 207-219) are among
\* them.
LockShapes ==
    [ word : {"8vsb", "none", "qam-256"},
      ss   : {"87", "-20", "8.5"},
      snq  : {"100", "42", ""},
      seq  : {"100", "x1"},
      tail : {"", "\n", " extra\n"} ]

LockLineOf(r) ==
    "LOCK: " \o r.word \o " (ss=" \o r.ss \o " snq=" \o r.snq
             \o " seq=" \o r.seq \o ")" \o r.tail

LockLines == { LockLineOf(r) : r \in LockShapes }

\* Program lines handed to parse_program, given by the text before the
\* first colon and the text after it; and lines without a colon.
ProgramLineParts ==
    [ left  : {"PROGRAM 1", "PROGRAM 21", "PROGRAM  3 ", "PROGRAM x 7",
               "PROGRAM"},
      right : {" Channel 5 News\n", "  KQED  \n", "", "\n", " A: B\n",
               " 10:30 News: late\n"} ]

ProgramLineOf(r) == r.left \o ":" \o r.right

ProgramLinesOf ==
    { ProgramLineOf(r) : r \in ProgramLineParts }
        \cup { "PROGRAM 1 Channel 5 News\n", "PROGRAM\n" }

\* parse_results_info on a list of one lock or program line: the extractor
\* is applied once, to that line.
InitExtract ==
    /\ scan_results \in { << l >> : l \in LockLines \cup ProgramLinesOf }
    /\ p_pc = "idle"
    /\ line_no = 1
    /\ frequency_info = EmptyDict
    /\ parsed_data = << >>
    /\ returned = << >>
    /\ QueryIdle
    /\ MainIdle

SpecExtract == InitExtract /\ [][NextParse]_vars

(***************************************************************************)
(* query_tuner: the for loop over the tuners.                              *)
(***************************************************************************)

\* Longest tuner list handed to query_tuner, the lists main builds apart.
MaxTuners == 3

\* The tuner lists main builds (line 590): one chosen tuner, or all four.
MainTunerLists == { << m >> : m \in 0..3 } \cup { << 0, 1, 2, 3 >> }

\* The tuner lists of the model: those of main, and every list of at most
\* MaxTuners tuners 0 or 1, repeated tuners included.
TunerLists ==
    MainTunerLists \cup UNION { [1..k -> {0, 1}] : k \in 0..MaxTuners }

\* What readlines() can yield for one scan command: every line but the
\* last ends with a newline, the last may lack it.
ScanOutputs ==
    { << >>,
      << "ERROR: resource locked by 192.168.1.50\n" >>,
      << "SCANNING: 489000000 (us-bcast:3)\n",
         "ERROR: resource locked by 192.168.1.50\n" >>,
      << "ERROR: resource locked by 192.168.1.50\n", "LOCK: none" >>,
      << "LOCK: none\n", "ERROR: resource locked by 192.168.1.50\n" >>,
      << "LOCK: none\n" >>,
      << "SCANNING: 489000000 (us-bcast:3)\n", "LOCK: none\n",
         "SCANNING: 495000000 (us-bcast:4)\n" >>,
      << "SCANNING: 489000000 (us-bcast:3)\n", "LOCK: none" >>,
      << "SCANNING: 489000000 (us-bcast:3)\n",
         "LOCK: none (ss=0 snq=0 seq=0)\n" >>,
      << "SCANNING: 489000000 (us-bcast:3)\n",
         "LOCK: 8vsb (ss=87 snq=100 seq=100)\n",
         "TSID: 12345\n",
         "PROGRAM 1: ProgramName1\n" >>,
      << "SCANNING: 489000000 (us-bcast:3)\n",
         "LOCK: 8vsb (ss=87 snq=100 seq=100)\n",
         "PROGRAM 21: Late Show\n",
         "SCANNING: 495000000 (us-bcast:4)\n",
         "PROGRAM 2: KQED\n" >> }

\* The exceptions os.popen and readlines can raise, each with the classes
\* it is an instance of.
ExceptionClasses ==
    [ OSError            |-> {"OSError", "Exception"},
      FileNotFoundError  |-> {"FileNotFoundError", "OSError", "Exception"},
      ValueError         |-> {"ValueError", "Exception"},
      UnicodeDecodeError |-> {"UnicodeDecodeError", "ValueError", "Exception"},
      MemoryError        |-> {"MemoryError", "Exception"} ]

RaisedKinds == DOMAIN ExceptionClasses

\* Line 407: any("ERROR: resource locked" in line for line in lines).
any_resource_locked(ls) ==
    \E i \in 1..Len(ls) : str_contains(ls[i], "ERROR: resource locked")

\* Variant of lock_none_in: the marker is looked for inside each line, as the
\* test of line 407 does.
lock_none_in_any_line(ls) ==
    \E i \in 1..Len(ls) : str_contains(ls[i], "LOCK: none")

\* Line 411: "LOCK: none" in lines, the membership test of a list: some
\* element equals the string.
lock_none_in(ls) == \E i \in 1..Len(ls) : ls[i] = "LOCK: none"

\* Variant of tuner_verdict: only the first line is tested for the
\* "resource locked" report.
tuner_verdict_first_line(ls) ==
    IF Len(ls) > 0 /\ str_contains(ls[1], "ERROR: resource locked")
    THEN "continue"
    ELSE IF lock_none_in(ls) THEN "return_empty"
    ELSE "return_lines"

\* Variant of tuner_verdict: a tuner that fails to lock is passed over like
\* a locked one and the next tuner is tried.
tuner_verdict_no_lock_continues(ls) ==
    IF any_resource_locked(ls) THEN "continue"
    ELSE IF lock_none_in(ls) THEN "continue"
    ELSE "return_lines"

\* Variant of tuner_verdict: the two tests in the other order, the failed
\* lock first.
tuner_verdict_no_lock_first(ls) ==
    IF lock_none_in(ls) THEN "return_empty"
    ELSE IF any_resource_locked(ls) THEN "continue"
    ELSE "return_lines"

\* Lines 407-416: what the loop does with the lines of one tuner.
tuner_verdict(ls) ==
    IF any_resource_locked(ls) THEN "continue"
    ELSE IF lock_none_in(ls) THEN "return_empty"
    ELSE "return_lines"

\* Variant of except_clause: the last clause, except Exception, is missing.
except_clause_no_catch_all(kind) ==
    IF "OSError" \in ExceptionClasses[kind] THEN "OSError"
    ELSE IF "ValueError" \in ExceptionClasses[kind] THEN "ValueError"
    ELSE "none"

\* Lines 418-428: the except clause that takes an exception of this kind,
\* the first in order whose class it is an instance of; "none" when no
\* clause does and the exception leaves query_tuner.
except_clause(kind) ==
    IF "OSError" \in ExceptionClasses[kind] THEN "OSError"
    ELSE IF "ValueError" \in ExceptionClasses[kind] THEN "ValueError"
    ELSE IF "Exception" \in ExceptionClasses[kind] THEN "Exception"
    ELSE "none"

\* One turn of the for loop in which the scan command runs and its output
\* is read.
query_read ==
    /\ q_pc = "loop"
    /\ tuner_no <= Len(tuners)
    /\ \E out \in ScanOutputs :
        /\ lines' = out
        /\ popen_log' = Append(popen_log,
               [tuner |-> tuners[tuner_no], error |-> "none", output |-> out])
        /\ CASE tuner_verdict(out) = "continue" ->
                   /\ printed' = Append(printed, "locked by another resource")
                   /\ tuner_no' = tuner_no + 1
                   /\ UNCHANGED << q_pc, result >>
             [] tuner_verdict(out) = "return_empty" ->
                   /\ printed' = Append(printed, "failed to lock")
                   /\ result' = << >>
                   /\ q_pc' = "returned"
                   /\ UNCHANGED tuner_no
             [] OTHER ->
                   /\ printed' = Append(printed, "Query completed")
                   /\ result' = out
                   /\ q_pc' = "returned"
                   /\ UNCHANGED tuner_no
    /\ UNCHANGED << tuners, pvars, mvars >>

\* One turn of the for loop in which os.popen or readlines raises.
query_raise ==
    /\ q_pc = "loop"
    /\ tuner_no <= Len(tuners)
    /\ \E kind \in RaisedKinds :
        /\ popen_log' = Append(popen_log,
               [tuner |-> tuners[tuner_no], error |-> kind, output |-> << >>])
        /\ IF except_clause(kind) = "none"
           THEN /\ q_pc' = "raised"
                /\ UNCHANGED << result, printed >>
           ELSE /\ printed' = Append(printed, except_clause(kind))
                /\ result' = << >>
                /\ q_pc' = "returned"
    /\ UNCHANGED << tuners, tuner_no, lines, pvars, mvars >>

\* Variant of query_exhausted: the lines read last are returned.
query_exhausted_returns_lines ==
    /\ q_pc = "loop"
    /\ tuner_no > Len(tuners)
    /\ printed' = Append(printed, "All tuners are either locked or failed to lock")
    /\ result' = lines
    /\ q_pc' = "returned"
    /\ UNCHANGED << tuners, tuner_no, lines, popen_log, pvars, mvars >>

\* Lines 430-431: the list is exhausted.
query_exhausted ==
    /\ q_pc = "loop"
    /\ tuner_no > Len(tuners)
    /\ printed' = Append(printed, "All tuners are either locked or failed to lock")
    /\ result' = << >>
    /\ q_pc' = "returned"
    /\ UNCHANGED << tuners, tuner_no, lines, popen_log, pvars, mvars >>

ParseIdle ==
    /\ scan_results = << >>
    /\ p_pc = "idle"
    /\ line_no = 1
    /\ frequency_info = EmptyDict
    /\ parsed_data = << >>
    /\ returned = << >>

\* query_tuner(device_id, tuners) has been called and is about to take the
\* first tuner.
InitQuery ==
    /\ tuners \in TunerLists
    /\ q_pc = "loop"
    /\ tuner_no = 1
    /\ lines = << >>
    /\ result = << >>
    /\ popen_log = << >>
    /\ printed = << >>
    /\ ParseIdle
    /\ MainIdle

NextQuery == query_read \/ query_raise \/ query_exhausted

SpecQuery == InitQuery /\ [][NextQuery]_vars

\* query_tuner under the assumption that a scan command, once started,
\* ends: the call blocks on it and does nothing else meanwhile.
SpecQueryFair == SpecQuery /\ WF_vars(NextQuery)

(***************************************************************************)
(* main: device selection, tuner mode, query, parse and CSV export.        *)
(***************************************************************************)

\* Constants for discovered program count (lines 16-17).
MIN_PROGRAM == 1
MAX_PROGRAM == 20

\* Times the user asks for another discovery in one call of select_device.
MaxRediscoveries == 2

UpperCase == "ABCDEFGHIJKLMNOPQRSTUVWXYZ"
LowerCase == "abcdefghijklmnopqrstuvwxyz"

\* str.lower() on one character.
lower_char(c) ==
    IF \E i \in 1..26 : CharAt(UpperCase, i) = c
    THEN CharAt(LowerCase, CHOOSE i \in 1..26 : CharAt(UpperCase, i) = c)
    ELSE c

\* str.lower()
RECURSIVE lower(_)
lower(s) ==
    IF s = "" THEN "" ELSE lower_char(CharAt(s, 1)) \o lower(Drop(s, 1))

DecimalDigits == "0123456789"

\* The value of a run of decimal digits.
RECURSIVE digits_value(_)
digits_value(s) ==
    IF s = "" THEN 0
    ELSE 10 * digits_value(SubSeq(s, 1, Len(s) - 1))
         + ( (CHOOSE i \in 1..10 : CharAt(DecimalDigits, i) = CharAt(s, Len(s)))
             - 1 )

\* The text int() converts: surrounding whitespace dropped.
int_text(s) == strip(s)

\* The digits of that text, after an optional sign.
int_digits(s) ==
    IF int_text(s) # "" /\ CharAt(int_text(s), 1) \in {"+", "-"}
    THEN Drop(int_text(s), 1)
    ELSE int_text(s)

\* int(s) raises ValueError unless s is an optional sign and digits.
int_raises(s) ==
    \/ int_digits(s) = ""
    \/ \E i \in 1..Len(int_digits(s)) : CharAt(int_digits(s), i) \notin Digits

\* int(s)
int_of(s) ==
    IF CharAt(int_text(s), 1) = "-" THEN 0 - digits_value(int_digits(s))
    ELSE digits_value(int_digits(s))

\* The text of f'{i}' for a natural number i.
RECURSIVE str_int(_)
str_int(i) ==
    IF i < 10 THEN CharAt(DecimalDigits, i + 1)
    ELSE str_int(i \div 10) \o CharAt(DecimalDigits, (i % 10) + 1)

\* dict.get(key, default)
dict_get(d, key, default) == IF key \in DOMAIN d THEN d[key] ELSE default

\* What "hdhomerun_config discover -4" can print, and the case in which
\* os.popen or read raises.
DiscoverOutcomes ==
    [ raised : {FALSE},
      text : { "hdhomerun device 1234ABCD found at 192.168.1.100\n",
               "hdhomerun device 1234ABCD found at 192.168.1.100\n"
                 \o "hdhomerun device 5678EF01 found at 192.168.1.101\n",
               "no devices found\n",
               "error: timeout\n",
               "" } ]
        \cup [ raised : {TRUE}, text : {""} ]

\* Line 54, the test of the filter.
is_device_line(dev) == ~ str_contains(lower(dev), "no devices found")

\* Lines 50-57: the devices discover_devices returns.
discover_devices(outcome) ==
    IF outcome.raised THEN << >>
    ELSE SelectSeq(split_sep(strip(outcome.text), "\n"), is_device_line)

\* What the user types at the three numbered prompts and at the y/n prompt.
DeviceInputs == { "1", "2", "3", "0", "x" }
RetryInputs  == { "y", "Y", "n", "" }
ModeInputs   == { "0", "1", "2", "3", "4", "5", "-1", "auto" }
SaveInputs   == { "1", "2", "yes" }

\* The discoveries the user asked for in this call of select_device.
UserRetries ==
    Cardinality({ i \in DOMAIN discover_log :
                      discover_log[i].event = "user_retry" })

\* The locals of select_device when the call is over.
select_device_left ==
    /\ retry_count' = 0
    /\ discovered_devices' = << >>
    /\ discover_log' = << >>

\* Lines 572-575 and 86: main starts and calls select_device.
main_start ==
    /\ m_pc = "idle"
    /\ m_pc' = "discover"
    /\ retry_count' = 0
    /\ UNCHANGED << discovered_devices, discover_log, selected_device,
                    results, main_parsed_data, caught, file_opened,
                    written_rows, pvars, qvars >>

\* Variant of retry_allowed: two automatic retries.
retry_allowed_twice(count) == count < 2

\* Line 107: the test of the automatic retry.
retry_allowed(count) == count < 1

\* Lines 88-91 and 106-114 (and 577-579 of main): one discovery.  With
\* devices the menu is shown; without, the discovery is retried or
\* select_device returns "" and main exits.
select_device_discover ==
    /\ m_pc = "discover"
    /\ \E outcome \in DiscoverOutcomes :
        LET devs  == discover_devices(outcome)
            found == [event |-> "discover", found |-> Len(devs)]
        IN  /\ discovered_devices' = devs
            /\ IF devs # << >>
               THEN /\ m_pc' = "device_prompt"
                    /\ discover_log' = Append(discover_log, found)
                    /\ UNCHANGED << retry_count, selected_device >>
               ELSE IF retry_allowed(retry_count)
               THEN /\ retry_count' = retry_count + 1
                    /\ discover_log' =
                           discover_log \o
                               << found, [event |-> "auto_retry", found |-> 0] >>
                    /\ m_pc' = "discover"
                    /\ UNCHANGED selected_device
               ELSE /\ selected_device' = ""
                    /\ discover_log' = Append(discover_log, found)
                    /\ m_pc' = "exited"
                    /\ UNCHANGED retry_count
    /\ UNCHANGED << results, main_parsed_data, caught, file_opened,
                    written_rows, pvars, qvars >>

\* Lines 577-582 of main: what main does with the device returned.
main_after_select(device) ==
    IF device = "" THEN "exited"
    ELSE IF Len(split_ws(device)) < 3 THEN "IndexError"
    ELSE "mode_prompt"

\* Lines 97-104 (and 577-582 of main): the user answers the menu.
select_device_choose ==
    /\ m_pc = "device_prompt"
    /\ \E inp \in DeviceInputs :
        IF int_raises(inp)
        THEN /\ caught' = "ValueError"
             /\ m_pc' = "save_prompt"
             /\ select_device_left
             /\ UNCHANGED selected_device
        ELSE LET choice == int_of(inp) - 1
             IN  IF 0 <= choice /\ choice < Len(discovered_devices)
                 THEN /\ selected_device' = discovered_devices[choice + 1]
                      /\ select_device_left
                      /\ IF main_after_select(selected_device') = "IndexError"
                         THEN caught' = "IndexError" /\ m_pc' = "save_prompt"
                         ELSE /\ m_pc' = main_after_select(selected_device')
                              /\ UNCHANGED caught
                 ELSE IF choice = Len(discovered_devices)
                 THEN /\ UserRetries < MaxRediscoveries
                      /\ m_pc' = "discover"
                      /\ discover_log' =
                             Append(discover_log,
                                    [event |-> "user_retry", found |-> 0])
                      /\ UNCHANGED << retry_count, discovered_devices,
                                      selected_device, caught >>
                 ELSE /\ m_pc' = "retry_prompt"
                      /\ UNCHANGED << retry_count, discovered_devices,
                                      discover_log, selected_device, caught >>
    /\ UNCHANGED << results, main_parsed_data, file_opened, written_rows,
                    pvars, qvars >>

\* Lines 117-119 (and 577-579 of main): the user answers the y/n prompt.
select_device_retry ==
    /\ m_pc = "retry_prompt"
    /\ \E retry \in RetryInputs :
        IF lower(retry) # "y"
        THEN /\ selected_device' = ""
             /\ m_pc' = "exited"
             /\ UNCHANGED << retry_count, discovered_devices, discover_log >>
        ELSE /\ UserRetries < MaxRediscoveries
             /\ m_pc' = "discover"
             /\ discover_log' =
                    Append(discover_log, [event |-> "user_retry", found |-> 0])
             /\ UNCHANGED << retry_count, discovered_devices, selected_device >>
    /\ UNCHANGED << results, main_parsed_data, caught, file_opened,
                    written_rows, pvars, qvars >>

\* Lines 122-134 and 585-593: the user chooses the mode; with a valid one
\* main builds the tuner list and calls query_tuner.
select_tuner_mode ==
    /\ m_pc = "mode_prompt"
    /\ \E inp \in ModeInputs :
        IF int_raises(inp)
        THEN /\ caught' = "ValueError"
             /\ m_pc' = "save_prompt"
             /\ UNCHANGED qvars
        ELSE LET mode == IF 0 <= int_of(inp) /\ int_of(inp) <= 4
                         THEN int_of(inp) ELSE -1
             IN  IF mode = -1
                 THEN m_pc' = "exited" /\ UNCHANGED << caught, qvars >>
                 ELSE /\ tuners' = IF mode # 4 THEN << mode >>
                                   ELSE << 0, 1, 2, 3 >>
                      /\ q_pc' = "loop"
                      /\ tuner_no' = 1
                      /\ m_pc' = "query"
                      /\ UNCHANGED << caught, lines, result, popen_log,
                                      printed >>
    /\ UNCHANGED << retry_count, discovered_devices, discover_log,
                    selected_device, results, main_parsed_data, file_opened,
                    written_rows, pvars >>

\* Lines 593-609: query_tuner is over; its lines are parsed.  An exception
\* is taken by the except clause of line 608, after which main goes on to
\* the save prompt; an empty list of records ends the program.
main_parse ==
    /\ m_pc = "query"
    /\ q_pc \in {"returned", "raised"}
    /\ IF q_pc = "raised"
       THEN /\ caught' = "Exception"
            /\ m_pc' = "save_prompt"
            /\ UNCHANGED << results, main_parsed_data >>
       ELSE /\ results' = result
            /\ IF parse_results_info_raises(result)
               THEN /\ caught' = "IndexError"
                    /\ m_pc' = "save_prompt"
                    /\ UNCHANGED main_parsed_data
               ELSE /\ main_parsed_data' = parse_results_info(result)
                    /\ m_pc' = IF main_parsed_data' = << >> THEN "exited"
                               ELSE "save_prompt"
                    /\ UNCHANGED caught
    /\ UNCHANGED << retry_count, discovered_devices, discover_log,
                    selected_device, file_opened, written_rows, pvars, qvars >>

\* Lines 621-627: the header row.
csv_header ==
    << "Frequency", "US-Bcast Channel", "Lock", "Signal Strength (dBmV)",
       "Signal to Noise Quality", "Symbol Error Quality", "TSID" >>
    \o [ i \in 1..(MAX_PROGRAM + 1 - MIN_PROGRAM) |->
            "Program" \o str_int(MIN_PROGRAM + i - 1) ]

\* Variant of csv_row: after the fixed columns come the values of all the
\* Program fields of the record.
csv_row_all_programs(data) ==
    << dict_get(data, "Frequency", ""),
       dict_get(data, "US-Bcast Channel", ""),
       dict_get(data, "Lock", ""),
       dict_get(data, "Signal Strength (dBmV)", ""),
       dict_get(data, "Signal to Noise Quality", ""),
       dict_get(data, "Symbol Error Quality", ""),
       dict_get(data, "TSID", "") >>
    \o [ i \in 1..(MAX_PROGRAM + 2 - MIN_PROGRAM) |->
            dict_get(data, "Program" \o str_int(MIN_PROGRAM + i - 1), "") ]

\* Lines 632-645: the row of one record.
csv_row(data) ==
    << dict_get(data, "Frequency", ""),
       dict_get(data, "US-Bcast Channel", ""),
       dict_get(data, "Lock", ""),
       dict_get(data, "Signal Strength (dBmV)", ""),
       dict_get(data, "Signal to Noise Quality", ""),
       dict_get(data, "Symbol Error Quality", ""),
       dict_get(data, "TSID", "") >>
    \o [ i \in 1..(MAX_PROGRAM + 1 - MIN_PROGRAM) |->
            dict_get(data, "Program" \o str_int(MIN_PROGRAM + i - 1), "") ]

\* Lines 612-658: the save prompt.  With the answer '1' the file is opened
\* for writing and the header and one row for each record are written,
\* unless open raises (line 650); any other answer writes nothing.
main_save ==
    /\ m_pc = "save_prompt"
    /\ \E user_response \in SaveInputs, open_raises \in BOOLEAN :
        IF user_response = "1" /\ ~ open_raises
        THEN /\ file_opened' = TRUE
             /\ written_rows' =
                    << csv_header >> \o
                    [ k \in 1..Len(main_parsed_data) |->
                          csv_row(main_parsed_data[k]) ]
        ELSE UNCHANGED << file_opened, written_rows >>
    /\ m_pc' = "openai_prompt"
    /\ UNCHANGED << retry_count, discovered_devices, discover_log,
                    selected_device, results, main_parsed_data, caught,
                    pvars, qvars >>

\* Lines 662-677: the OpenAI prompt and what follows it, which touch none
\* of the variables; main is over.
main_openai ==
    /\ m_pc = "openai_prompt"
    /\ m_pc' = "done"
    /\ UNCHANGED << retry_count, discovered_devices, discover_log,
                    selected_device, results, main_parsed_data, caught,
                    file_opened, written_rows, pvars, qvars >>

InitMain == ParseIdle /\ QueryIdle /\ MainIdle

NextMain ==
    \/ main_start
    \/ select_device_discover
    \/ select_device_choose
    \/ select_device_retry
    \/ select_tuner_mode
    \/ query_read
    \/ query_raise
    \/ query_exhausted
    \/ main_parse
    \/ main_save
    \/ main_openai

SpecMain == InitMain /\ [][NextMain]_vars

(***************************************************************************)
(* Properties of query_tuner.                                              *)
(***************************************************************************)

\* The text of a line without its line terminator.
LineText(l) ==
    IF Len(l) > 0 /\ CharAt(l, Len(l)) = "\n" THEN SubSeq(l, 1, Len(l) - 1)
    ELSE l

\* The output has a line carrying the scan command's report that another
\* process holds the tuner, "ERROR: resource locked by <address>".
ReportsResourceLocked(out) ==
    \E i \in 1..Len(out) : str_contains(out[i], "ERROR: resource locked")

\* The output has the line "LOCK: none".
HasLockNoneLine(out) ==
    \E i \in 1..Len(out) : LineText(out[i]) = "LOCK: none"

\* The scan command of log entry e ran, was read, and reported the tuner
\* locked by another resource.
EntryLocked(e) == e.error = "none" /\ ReportsResourceLocked(e.output)

LastEntry == popen_log[Len(popen_log)]

\* C1: when the output read for a tuner has a "resource locked" line, the
\* step that read it returns nothing and leaves the loop at the next
\* position of the list; the scan command of a step is always the one of
\* the tuner at the loop's position; and an output with such a line is
\* never the value returned.
C1_LockedTunerSkipped ==
    [][ /\ ( Len(popen_log') = Len(popen_log) + 1
             => popen_log'[Len(popen_log')].tuner = tuners[tuner_no] )
        /\ ( Len(popen_log') = Len(popen_log) + 1
             /\ EntryLocked(popen_log'[Len(popen_log')])
             => /\ q_pc' = "loop"
                /\ tuner_no' = tuner_no + 1
                /\ result' = result )
        /\ ( q_pc' = "returned" => ~ ReportsResourceLocked(result') )
      ]_vars

\* C1 witness: the first tuner was locked and the second has been queried.
C1_Witness ==
    /\ Len(popen_log) = 2
    /\ EntryLocked(popen_log[1])
    /\ Len(popen_log[1].output) = 2
    /\ popen_log[2].tuner = tuners[2]

\* C2: when the output read for a tuner has no "resource locked" line and
\* has the line "LOCK: none", the call has returned the empty list (and so
\* runs no later scan command).
C2_LockNoneReturnsEmpty ==
    ( /\ popen_log # << >>
      /\ LastEntry.error = "none"
      /\ ~ ReportsResourceLocked(LastEntry.output)
      /\ HasLockNoneLine(LastEntry.output) )
    => ( q_pc = "returned" /\ result = << >> )

\* C3: when the first tuner in list order whose output has no "resource
\* locked" line was read without error and has no "LOCK: none" line, the
\* call has returned exactly the lines of that tuner, no later scan command
\* has run, and every tuner up to it was queried once, in list order.
C3_FirstUsableTunerReturned ==
    \A k \in 1..Len(popen_log) :
        ( /\ \A j \in 1..(k - 1) : EntryLocked(popen_log[j])
          /\ popen_log[k].error = "none"
          /\ ~ ReportsResourceLocked(popen_log[k].output)
          /\ ~ HasLockNoneLine(popen_log[k].output) )
        => /\ q_pc = "returned"
           /\ result = popen_log[k].output
           /\ Len(popen_log) = k
           /\ k <= Len(tuners)
           /\ \A j \in 1..k : popen_log[j].tuner = tuners[j]

\* C3 witness: tuner list of two, the first locked, the second a scan whose
\* lines were returned.
C3_Witness ==
    /\ Len(tuners) >= 2
    /\ Len(popen_log) = 2
    /\ EntryLocked(popen_log[1])
    /\ popen_log[2].error = "none"
    /\ Len(popen_log[2].output) = 4
    /\ q_pc = "returned"
    /\ result = popen_log[2].output

\* Every scan command run so far reported its tuner locked.
AllLockedSoFar == \A j \in 1..Len(popen_log) : EntryLocked(popen_log[j])

\* As long as every tuner queried reports "resource locked", the tuners
\* queried are the first ones of the list, each once and in order, the loop
\* stands right after them, and the call returns only when the whole list
\* was queried, with the empty list.
AllLockedState ==
    AllLockedSoFar =>
        /\ Len(popen_log) <= Len(tuners)
        /\ \A j \in 1..Len(popen_log) : popen_log[j].tuner = tuners[j]
        /\ q_pc = "loop" => tuner_no = Len(popen_log) + 1
        /\ q_pc = "returned" =>
              ( Len(popen_log) = Len(tuners) /\ result = << >> )
        /\ q_pc \in {"loop", "returned"}

\* C4: when every tuner of the list reports "resource locked" (the empty
\* list included), the call ends, and it returns the empty list after
\* querying each tuner of the list exactly once, in order: AllLockedState
\* holds in every state and the loop is left eventually.
C4_AllLockedReturnsEmpty ==
    [] AllLockedState /\ <> (q_pc # "loop")

\* C4 witness: a list of at least two tuners, all locked, and the call
\* returned.
C4_Witness ==
    /\ Len(tuners) >= 2
    /\ Len(popen_log) = Len(tuners)
    /\ AllLockedSoFar
    /\ q_pc = "returned"
    /\ result = << >>

\* C5: no exception leaves query_tuner, and when the scan command of a
\* tuner raised, the call has returned the empty list.
C5_ErrorsReturnEmpty ==
    /\ q_pc # "raised"
    /\ ( popen_log # << >> /\ LastEntry.error # "none" )
       => ( q_pc = "returned" /\ result = << >> )

\* C5 witness: the second scan command raised an exception that only the
\* last except clause takes.
C5_Witness ==
    /\ Len(popen_log) = 2
    /\ LastEntry.error = "MemoryError"
    /\ q_pc = "returned"
    /\ result = << >>

\* A step in which a scan command ran and its output was read.
OutputReadStep ==
    /\ Len(popen_log') = Len(popen_log) + 1
    /\ popen_log'[Len(popen_log')].error = "none"

\* A step that gives up on a failed lock: it prints "failed to lock".
NoLockAbortStep ==
    /\ Len(printed') = Len(printed) + 1
    /\ printed'[Len(printed')] = "failed to lock"

\* C21: when the output of one tuner has both a "resource locked" line and
\* the line "LOCK: none", the loop goes on to the next tuner of the list
\* and nothing is returned; and the loop gives up on a failed lock only for
\* an output without a "resource locked" line.
C21_LockedBeforeNoLock ==
    [][ /\ ( /\ OutputReadStep
             /\ ReportsResourceLocked(popen_log'[Len(popen_log')].output)
             /\ HasLockNoneLine(popen_log'[Len(popen_log')].output) )
           => /\ q_pc' = "loop"
              /\ tuner_no' = tuner_no + 1
              /\ result' = result
              /\ ~ NoLockAbortStep
        /\ ( OutputReadStep /\ NoLockAbortStep )
           => ~ ReportsResourceLocked(popen_log'[Len(popen_log')].output)
      ]_vars

\* C21 witness: the first tuner printed a "resource locked" line and then
\* the unterminated line LOCK: none, and the scan command of the second
\* tuner of the list ran after it.
C21_Witness ==
    /\ Len(popen_log) = 2
    /\ popen_log[1].output =
           << "ERROR: resource locked by 192.168.1.50\n", "LOCK: none" >>
    /\ popen_log[1].tuner = tuners[1]
    /\ popen_log[2].tuner = tuners[2]

(***************************************************************************)
(* Properties of parse_results_info.                                       *)
(***************************************************************************)

\* A FrequencyStart line.
IsFrequencyStart(line) == startswith(line, "SCANNING:")

\* Positions of the FrequencyStart lines of a line list.
StartPositions(ls) == { i \in 1..Len(ls) : IsFrequencyStart(ls[i]) }

\* The fields one line yields by itself.
FieldsOf(line) == frequency_info_after(EmptyDict, line)

\* The block opened at position i: that line and the lines after it up to
\* the next FrequencyStart line.  Position 0 opens the block of the lines
\* before the first FrequencyStart line.
BlockLines(ls, i) ==
    { j \in 1..Len(ls) :
        j >= i /\ \A k \in (i + 1)..j : ~ IsFrequencyStart(ls[k]) }

\* The blocks in which some line yields a field.
NonEmptyBlocks(ls) ==
    { i \in {0} \cup StartPositions(ls) :
        \E j \in BlockLines(ls, i) : FieldsOf(ls[j]) # EmptyDict }

\* The value returned by the last finished call.
LastReturned == returned[Len(returned)]

\* A call has just returned (every value returned is the last one in such
\* a state).
JustReturned == p_pc = "idle" /\ returned # << >>

\* C6 as stated: the number of records is the number of FrequencyStart
\* lines, plus one when lines that are no FrequencyStart come before the
\* first FrequencyStart line.
C6_CountEqualsStarts ==
    JustReturned =>
        Len(LastReturned) =
            Cardinality(StartPositions(scan_results))
            + (IF scan_results # << >> /\ ~ IsFrequencyStart(scan_results[1])
               THEN 1 ELSE 0)

\* C6 amended: the number of records is the number of FrequencyStart lines
\* whose block yields at least one field, plus one when the lines before
\* the first FrequencyStart line yield at least one field.
C6_CountEqualsNonEmptyBlocks ==
    JustReturned =>
        Len(LastReturned) = Cardinality(NonEmptyBlocks(scan_results))

\* C6 witness: a stream on which the two counts differ: an unrecognized
\* line, a FrequencyStart line, a bare "SCANNING:", and one record.
C6_Witness ==
    /\ JustReturned
    /\ Len(scan_results) = 3
    /\ scan_results[1] = "garbage\n"
    /\ Cardinality(StartPositions(scan_results)) = 2
    /\ Len(LastReturned) = 1

\* C7: inside a call the output list grows by at most one record a step,
\* and only in a step that reads a FrequencyStart line or in the step after
\* the last line; a step reading any other line leaves its length alone.
C7_GrowsOnlyAtBoundary ==
    [][ p_pc = "loop" =>
          /\ Len(parsed_data') \in { Len(parsed_data), Len(parsed_data) + 1 }
          /\ Len(parsed_data') = Len(parsed_data) + 1 =>
                \/ line_no > Len(scan_results)
                \/ IsFrequencyStart(scan_results[line_no])
      ]_vars

\* C7 witness: a record was pushed at the second FrequencyStart line and a
\* TSID line has been read after it.
C7_Witness ==
    /\ p_pc = "loop"
    /\ line_no = 4
    /\ IsFrequencyStart(scan_results[1])
    /\ IsFrequencyStart(scan_results[2])
    /\ scan_results[3] = "TSID: 12345\n"
    /\ Len(parsed_data) = 1
    /\ "TSID" \in DOMAIN frequency_info

\* The lines of the pool that lack the shape their extractor expects: a
\* FrequencyStart line without a second token, a lock line without the
\* (ss= snq= seq=) annotation, a TSID line of three tokens, a program line
\* with two colons.
MalformedLines ==
    { "SCANNING:\n", "LOCK: none\n", "TSID: 1 2\n", "PROGRAM 3: A: B\n" }

\* C8: a malformed line yields no field; no step of parse_results_info
\* raises; the step that reads a malformed line adds nothing to the current
\* record (a malformed FrequencyStart line leaves it empty) and goes on to
\* the next line; and the call returns only after the last line.
C8_MalformedLinesTolerated ==
    /\ \A l \in MalformedLines : FieldsOf(l) = EmptyDict
    /\ [][ /\ p_pc' # "raised"
           /\ ( p_pc = "loop" /\ line_no <= Len(scan_results) )
              => /\ p_pc' = "loop"
                 /\ line_no' = line_no + 1
                 /\ scan_results[line_no] \in MalformedLines
                    => IF IsFrequencyStart(scan_results[line_no])
                       THEN frequency_info' = EmptyDict
                       ELSE /\ frequency_info' = frequency_info
                            /\ parsed_data' = parsed_data
           /\ returned' # returned => line_no > Len(scan_results)
         ]_vars

\* C8 witness: a malformed lock line was read after a FrequencyStart line,
\* and the TSID line after it has added its field.
C8_Witness ==
    /\ p_pc = "loop"
    /\ line_no = 4
    /\ scan_results[1] = "SCANNING: 489000000 (us-bcast:3)\n"
    /\ scan_results[2] = "LOCK: none\n"
    /\ scan_results[3] = "TSID: 12345\n"
    /\ DOMAIN frequency_info = {"Frequency", "US-Bcast Channel", "TSID"}

\* C9: every call of parse_results_info on the same line list returns the
\* same list of records as the first.
C9_SamePassSameResult ==
    \A r \in 1..Len(returned) : returned[r] = returned[1]

\* C9 witness: two calls have returned, two records each.
C9_Witness ==
    /\ Len(returned) = 2
    /\ Len(returned[1]) = 2
    /\ Len(returned[2]) = 2

\* The fields the specification gives for the well-formed lock, stream-id
\* and program lines of the pool.
ExpectedFields ==
    ( "LOCK: 8vsb (ss=87 snq=100 seq=100)\n" :>
          ( ("Lock" :> "8vsb") @@
            ("Signal Strength (dBmV)" :> "87") @@
            ("Signal to Noise Quality" :> "100") @@
            ("Symbol Error Quality" :> "100") ) ) @@
    ( "TSID: 12345\n" :> ("TSID" :> "12345") ) @@
    ( "PROGRAM 1: Channel 5 News\n" :> ("Program1" :> "Channel 5 News") ) @@
    ( "PROGRAM 2: ProgramName2\n" :> ("Program2" :> "ProgramName2") )

\* The frequency the specification gives for the well-formed
\* FrequencyStart lines of the pool.
ExpectedFrequency ==
    ( "SCANNING: 489000000 (us-bcast:3)\n" :> "489000000" ) @@
    ( "SCANNING: 495000000 (us-bcast:4)\n" :> "495000000" )

\* A line that starts with none of the four tokens.
IsUnrecognized(line) ==
    /\ ~ startswith(line, "SCANNING:")
    /\ ~ startswith(line, "LOCK")
    /\ ~ startswith(line, "TSID")
    /\ ~ startswith(line, "PROGRAM")

\* The expected fields of the lines at the positions ps (a set), merged in
\* stream order.
RECURSIVE MergedExpected(_, _)
MergedExpected(ls, ps) ==
    IF ps = {} THEN EmptyDict
    ELSE LET last == CHOOSE i \in ps : \A j \in ps : j <= i
         IN  dict_update(MergedExpected(ls, ps \ {last}),
                         ExpectedFields[ls[last]])

\* The recognized lines before the first FrequencyStart line.
LeadingRecognized(ls) ==
    { j \in BlockLines(ls, 0) : ~ IsUnrecognized(ls[j]) }

\* C10: when the recognized lines before the first FrequencyStart line are
\* well-formed lock, stream-id or program lines (at least one), the first
\* record returned holds exactly their fields and no Frequency; and when a
\* well-formed FrequencyStart line follows, its record is the second one.
C10_LeadingRecordKept ==
    LET lead  == LeadingRecognized(scan_results)
        first == Cardinality(BlockLines(scan_results, 0)) + 1
    IN  ( /\ JustReturned
          /\ lead # {}
          /\ \A j \in lead : scan_results[j] \in DOMAIN ExpectedFields )
        => /\ Len(LastReturned) >= 1
           /\ LastReturned[1] = MergedExpected(scan_results, lead)
           /\ "Frequency" \notin DOMAIN LastReturned[1]
           /\ ( first <= Len(scan_results)
                /\ scan_results[first] \in DOMAIN ExpectedFrequency )
              => /\ Len(LastReturned) >= 2
                 /\ "Frequency" \in DOMAIN LastReturned[2]
                 /\ LastReturned[2]["Frequency"] =
                        ExpectedFrequency[scan_results[first]]

\* C10 witness: a TSID line and a program line, then a FrequencyStart
\* line: two records, the first without Frequency.
C10_Witness ==
    /\ JustReturned
    /\ scan_results = << "TSID: 12345\n", "PROGRAM 1: Channel 5 News\n",
                         "SCANNING: 489000000 (us-bcast:3)\n" >>
    /\ Len(LastReturned) = 2
    /\ DOMAIN LastReturned[1] = {"TSID", "Program1"}


\* The records that hold a Frequency.
HasFrequency(rec) == "Frequency" \in DOMAIN rec

\* A well-formed FrequencyStart line of the pool.
IsWellFormedStart(line) == line \in DOMAIN ExpectedFrequency

\* C11: the records that hold a Frequency come in the order of the
\* well-formed FrequencyStart lines of the input, one record for each such
\* line, equal frequencies included: the k-th of these records holds the
\* frequency of the k-th of these lines.
C11_RecordsInScanOrder ==
    JustReturned =>
        LET recs   == SelectSeq(LastReturned, HasFrequency)
            starts == SelectSeq(scan_results, IsWellFormedStart)
        IN  /\ Len(recs) = Len(starts)
            /\ \A k \in 1..Len(recs) :
                   recs[k]["Frequency"] = ExpectedFrequency[starts[k]]

\* C11 witness: the same frequency scanned twice with another in between
\* gives three records, in that order.
C11_Witness ==
    /\ JustReturned
    /\ scan_results = << "SCANNING: 495000000 (us-bcast:4)\n",
                         "SCANNING: 489000000 (us-bcast:3)\n",
                         "SCANNING: 495000000 (us-bcast:4)\n" >>
    /\ Len(LastReturned) = 3
    /\ LastReturned[1]["Frequency"] = "495000000"
    /\ LastReturned[2]["Frequency"] = "489000000"
    /\ LastReturned[3] = LastReturned[1]


\* The fields the specification gives for the well-formed FrequencyStart
\* lines of the pool.
ExpectedStartFields ==
    ( "SCANNING: 489000000 (us-bcast:3)\n" :>
          ( ("Frequency" :> "489000000") @@ ("US-Bcast Channel" :> "3") ) ) @@
    ( "SCANNING: 495000000 (us-bcast:4)\n" :>
          ( ("Frequency" :> "495000000") @@ ("US-Bcast Channel" :> "4") ) )

\* The fields the specification gives for a well-formed line.
ExpectedOf(line) ==
    IF line \in DOMAIN ExpectedStartFields THEN ExpectedStartFields[line]
    ELSE ExpectedFields[line]

\* C12: a scan made of one well-formed FrequencyStart line followed by
\* well-formed LockStatus, TransportStreamId and ProgramEntry lines of
\* distinct program numbers yields exactly one record; its field names are
\* the union of the field names of all the lines, and each field has the
\* value its line gives it.
C12_OneMergedRecord ==
    JustReturned =>
        /\ Len(LastReturned) = 1
        /\ DOMAIN LastReturned[1] =
               UNION { DOMAIN ExpectedOf(scan_results[i]) :
                          i \in DOMAIN scan_results }
        /\ \A i \in DOMAIN scan_results :
               \A k \in DOMAIN ExpectedOf(scan_results[i]) :
                   LastReturned[1][k] = ExpectedOf(scan_results[i])[k]

\* C12 witness: the five-line sequence gives one record of nine fields.
C12_Witness ==
    /\ JustReturned
    /\ scan_results = << "SCANNING: 489000000 (us-bcast:3)\n",
                         "LOCK: 8vsb (ss=87 snq=100 seq=100)\n",
                         "TSID: 12345\n",
                         "PROGRAM 1: Channel 5 News\n",
                         "PROGRAM 2: ProgramName2\n" >>
    /\ Len(LastReturned) = 1
    /\ Cardinality(DOMAIN LastReturned[1]) = 9


\* The fields the specification gives for a FrequencyStart line alone: those
\* of a well-formed line, none for a line without a second token.
ExpectedStartOf(line) ==
    IF line \in DOMAIN ExpectedStartFields THEN ExpectedStartFields[line]
    ELSE EmptyDict

\* A turn of the loop that processes a FrequencyStart line.
FrequencyStartStep ==
    /\ p_pc = "loop"
    /\ line_no <= Len(scan_results)
    /\ line_no' = line_no + 1
    /\ IsFrequencyStart(scan_results[line_no])

\* C19: on a FrequencyStart line the previous current dict is pushed onto
\* the output if and only if it is not empty, and the current dict becomes
\* the fields of that line alone: no Lock, TSID or Program field of the
\* previous frequency is carried over.
C19_StartReplacesCurrent ==
    [][ FrequencyStartStep =>
          /\ parsed_data' = IF frequency_info # EmptyDict
                            THEN Append(parsed_data, frequency_info)
                            ELSE parsed_data
          /\ frequency_info' = ExpectedStartOf(scan_results[line_no])
          /\ DOMAIN frequency_info' \subseteq {"Frequency", "US-Bcast Channel"}
      ]_vars

\* C19 witness: a second FrequencyStart line was read after a lock line;
\* the first record, with its lock fields, was pushed and the current dict
\* holds the second frequency only.
C19_Witness ==
    /\ p_pc = "loop"
    /\ line_no = 4
    /\ scan_results = << "SCANNING: 489000000 (us-bcast:3)\n",
                         "LOCK: 8vsb (ss=87 snq=100 seq=100)\n",
                         "SCANNING: 495000000 (us-bcast:4)\n" >>
    /\ Len(parsed_data) = 1
    /\ "Lock" \in DOMAIN parsed_data[1]
    /\ frequency_info = ExpectedStartFields[scan_results[3]]

\* A turn of the loop that processes an Unrecognized line.
UnrecognizedStep ==
    /\ p_pc = "loop"
    /\ line_no <= Len(scan_results)
    /\ line_no' = line_no + 1
    /\ IsUnrecognized(scan_results[line_no])

\* The line list without its Unrecognized lines.
IsRecognized(line) == ~ IsUnrecognized(line)

WithoutUnrecognized(ls) == SelectSeq(ls, IsRecognized)

\* C20: processing an Unrecognized line changes neither the current dict
\* nor the output list, and the list a call returns is the list the call
\* returns on the same lines with the Unrecognized ones removed.
C20_UnrecognizedIgnored ==
    /\ [][ UnrecognizedStep =>
             /\ frequency_info' = frequency_info
             /\ parsed_data' = parsed_data ]_vars
    /\ [] ( JustReturned =>
              LastReturned =
                  parse_results_info(WithoutUnrecognized(scan_results)) )

\* C20 witness: a lower-case scanning: line between a FrequencyStart line
\* and a lock line is skipped, and the one record returned holds the first
\* frequency and the lock.
C20_Witness ==
    /\ JustReturned
    /\ scan_results = << "SCANNING: 495000000 (us-bcast:4)\n",
                         "scanning: 489000000 (us-bcast:3)\n",
                         "LOCK: 8vsb (ss=87 snq=100 seq=100)\n" >>
    /\ Len(LastReturned) = 1
    /\ LastReturned[1]["Frequency"] = "495000000"
    /\ LastReturned[1]["Lock"] = "8vsb"


\* The scan commands run so far are those of the first positions of the
\* list, one for each position and in list order, and every one but the
\* last reported its tuner locked.
ProbedInOrder ==
    /\ Len(popen_log) <= Len(tuners)
    /\ \A j \in 1..Len(popen_log) : popen_log[j].tuner = tuners[j]
    /\ \A j \in 1..(Len(popen_log) - 1) : EntryLocked(popen_log[j])

\* Position k of the list is due: the k - 1 positions before it were
\* invoked and all reported "resource locked".
PositionDue(k) ==
    /\ k <= Len(tuners)
    /\ Len(popen_log) = k - 1
    /\ AllLockedSoFar

\* C18: the tuners are probed one after the other in list order, each
\* position at most once; the tuner at position k is invoked only if every
\* position before it was invoked and reported "resource locked" (a failed
\* lock or an error at an earlier position ends the probing), and whenever
\* that is the case it is invoked.
C18_SequentialProbing ==
    /\ [] ProbedInOrder
    /\ [][ Len(popen_log') \in { Len(popen_log), Len(popen_log) + 1 } ]_vars
    /\ \A k \in 1..(MaxTuners + 1) :
           PositionDue(k) ~> (Len(popen_log) >= k)

\* C18 witness: the third tuner of the list ran after two locked ones and
\* did not report "resource locked", and the call returned with a fourth
\* tuner left untried.
C18_Witness ==
    /\ Len(tuners) = 4
    /\ Len(popen_log) = 3
    /\ EntryLocked(popen_log[1])
    /\ EntryLocked(popen_log[2])
    /\ ~ EntryLocked(popen_log[3])
    /\ popen_log[3].tuner = tuners[3]
    /\ q_pc = "returned"


\* The extractor has just been applied to the only line of the list.
LineExtracted == p_pc = "loop" /\ line_no = 2 /\ Len(scan_results) = 1

\* A non-empty text made of the given characters only.
AllIn(s, chars) ==
    s # "" /\ \A i \in 1..Len(s) : CharAt(s, i) \in chars

\* An integer in decimal notation, negative ones included.
IsInteger(s) ==
    IF s # "" /\ CharAt(s, 1) = "-" THEN AllIn(Drop(s, 1), Digits)
    ELSE AllIn(s, Digits)

\* The pieces of a lock line of LockLines.
ShapeOf(line) == CHOOSE r \in LockShapes : LockLineOf(r) = line

\* The line has the exact shape LOCK: <word> (ss=<int> snq=<int> seq=<int>),
\* with nothing but the end of the line after the closing parenthesis.
HasExactLockShape(r) ==
    /\ AllIn(r.word, WordChars)
    /\ IsInteger(r.ss)
    /\ IsInteger(r.snq)
    /\ IsInteger(r.seq)
    /\ r.tail \in {"", "\n"}

LockFieldsOf(r) ==
    ("Lock" :> r.word) @@
    ("Signal Strength (dBmV)" :> r.ss) @@
    ("Signal to Noise Quality" :> r.snq) @@
    ("Symbol Error Quality" :> r.seq)

\* C16: parse_lock yields the four fields Lock, Signal Strength, Signal to
\* Noise Quality and Symbol Error Quality exactly when the line has the
\* exact shape LOCK: <word> (ss=<int> snq=<int> seq=<int>), a negative
\* integer included, and no field for every other line, such as one with
\* text after the closing parenthesis.
C16_LockFieldsIffExactShape ==
    ( LineExtracted /\ scan_results[1] \in LockLines ) =>
        LET r == ShapeOf(scan_results[1])
        IN  frequency_info =
                IF HasExactLockShape(r) THEN LockFieldsOf(r) ELSE EmptyDict


\* Positions of the colons of a line.
ColonPositions(line) == { i \in 1..Len(line) : CharAt(line, i) = ":" }

FirstColon(line) ==
    CHOOSE i \in ColonPositions(line) : \A j \in ColonPositions(line) : i <= j

\* The last whitespace-delimited token of a text that has one.
LastToken(s) == split_ws(s)[Len(split_ws(s))]

\* C17: for a program line with exactly one colon parse_program yields one
\* field: its key is "Program" followed by the last whitespace-delimited
\* token of the text before the colon, its value the text after the colon
\* without the surrounding whitespace.  A line whose number of colons is not
\* exactly one yields no field.
C17_ProgramSplitAtColon ==
    ( LineExtracted /\ scan_results[1] \in ProgramLinesOf ) =>
        LET line == scan_results[1]
        IN  IF Cardinality(ColonPositions(line)) = 1
            THEN LET c == FirstColon(line)
                 IN  /\ DOMAIN frequency_info =
                            { "Program" \o LastToken(SubSeq(line, 1, c - 1)) }
                     /\ \A k \in DOMAIN frequency_info :
                            frequency_info[k] =
                                strip(SubSeq(line, c + 1, Len(line)))
            ELSE frequency_info = EmptyDict

\* C17 witness: a line with several tokens before its only colon and
\* blanks around the name gives the field Program7 = KQED.
C17_Witness ==
    /\ LineExtracted
    /\ scan_results[1] = "PROGRAM x 7:  KQED  \n"
    /\ frequency_info = ("Program7" :> "KQED")


(***************************************************************************)
(* Properties of main.                                                     *)
(***************************************************************************)

\* C13: the CSV file is opened for writing only in runs in which no step
\* of the core failed or raised and the records, at least one, were
\* produced first: a run in which an exception was caught, and a run that
\* exited, leave no file.
C13_NoFileOnFailure ==
    /\ file_opened =>
           /\ caught = "none"
           /\ main_parsed_data # << >>
           /\ main_parsed_data = parse_results_info(results)
    /\ (caught # "none" \/ m_pc = "exited") => ~ file_opened

\* The 27 columns of the export.
ExportColumns ==
    << "Frequency", "US-Bcast Channel", "Lock", "Signal Strength (dBmV)",
       "Signal to Noise Quality", "Symbol Error Quality", "TSID",
       "Program1", "Program2", "Program3", "Program4", "Program5",
       "Program6", "Program7", "Program8", "Program9", "Program10",
       "Program11", "Program12", "Program13", "Program14", "Program15",
       "Program16", "Program17", "Program18", "Program19", "Program20" >>

\* Row r holds, column by column, the fields of record rec, the empty
\* string standing for a field the record lacks.
RowOfRecord(r, rec) ==
    /\ Len(r) = Len(ExportColumns)
    /\ \A j \in 1..Len(ExportColumns) :
           r[j] = IF ExportColumns[j] \in DOMAIN rec
                  THEN rec[ExportColumns[j]] ELSE ""

\* C14: the rows written are the header and then one row for each record,
\* in record order; every row has the 7 fixed columns and Program1 to
\* Program20, with the empty string for a missing field, so that a field
\* Program-N with N > 20 is in no row; and writing the rows leaves the
\* records as they were.
C14_OneRowPerRecord ==
    /\ [] ( file_opened =>
              /\ Len(written_rows) = 1 + Len(main_parsed_data)
              /\ written_rows[1] = ExportColumns
              /\ \A k \in 1..Len(main_parsed_data) :
                     RowOfRecord(written_rows[k + 1], main_parsed_data[k]) )
    /\ [][ file_opened' => main_parsed_data' = main_parsed_data ]_vars

\* C14 witness: two records, the first with a field Program21, the second
\* without lock fields; three rows of 27 columns were written, none holds
\* the name of program 21, and the record still has it.
C14_Witness ==
    /\ file_opened
    /\ Len(main_parsed_data) = 2
    /\ "Program21" \in DOMAIN main_parsed_data[1]
    /\ main_parsed_data[1]["Program21"] = "Late Show"
    /\ Len(written_rows) = 3
    /\ \A k \in 1..3 : Len(written_rows[k]) = 27
    /\ \A j \in 1..27 : written_rows[2][j] # "Late Show"
    /\ written_rows[3][1] = "495000000"
    /\ written_rows[3][3] = ""
    /\ written_rows[3][9] = "KQED"

\* The automatic retries of the current call of select_device.
AutoRetries ==
    Cardinality({ i \in DOMAIN discover_log :
                      discover_log[i].event = "auto_retry" })

\* A step in which a discovery is made and yields no device.
EmptyDiscoveryStep ==
    /\ m_pc = "discover"
    /\ Len(discover_log') > Len(discover_log)
    /\ discover_log'[Len(discover_log) + 1] =
           [event |-> "discover", found |-> 0]

\* C15: a discovery without devices is followed by one automatic retry
\* when none was made in this call of select_device; when the automatic
\* retry was made already, select_device returns the empty string and main
\* exits without a scan command having run.  No call of select_device
\* makes more than one automatic retry.
C15_SingleAutomaticRetry ==
    /\ [][ EmptyDiscoveryStep =>
             IF AutoRetries = 0
             THEN /\ m_pc' = "discover"
                  /\ discover_log'[Len(discover_log')].event = "auto_retry"
             ELSE /\ Len(discover_log') = Len(discover_log) + 1
                  /\ selected_device' = ""
                  /\ m_pc' = "exited"
                  /\ q_pc' = "idle"
                  /\ popen_log' = << >>
         ]_vars
    /\ [] ( AutoRetries <= 1 )

\* C15 witness: after a discovery the user asked for, a discovery without
\* devices was retried automatically, the retry found none either, and
\* main exited without a scan command.
C15_Witness ==
    /\ m_pc = "exited"
    /\ Len(discover_log) = 5
    /\ discover_log[1].found > 0
    /\ discover_log[2].event = "user_retry"
    /\ discover_log[3] = [event |-> "discover", found |-> 0]
    /\ discover_log[4].event = "auto_retry"
    /\ discover_log[5] = [event |-> "discover", found |-> 0]
    /\ selected_device = ""
    /\ popen_log = << >>


\* A FrequencyStart line with fewer than two whitespace-delimited tokens.
IsBareStart(line) == IsFrequencyStart(line) /\ Len(split_ws(line)) < 2

\* A turn of the loop that processes such a line.
BareStartStep ==
    /\ p_pc = "loop"
    /\ line_no <= Len(scan_results)
    /\ line_no' = line_no + 1
    /\ IsBareStart(scan_results[line_no])

\* The last FrequencyStart line among the first n lines, 0 when there is
\* none.
LastStartWithin(ls, n) ==
    IF StartPositions(ls) \cap 1..n = {} THEN 0
    ELSE CHOOSE i \in StartPositions(ls) \cap 1..n :
             \A j \in StartPositions(ls) \cap 1..n : j <= i

\* The positions from a to b of the lines that contribute a field.
Contributing(ls, a, b) == { i \in a..b : ls[i] \in DOMAIN ExpectedFields }

\* C22: a FrequencyStart line with fewer than two tokens is a record
\* boundary like any other: a non-empty current dict is pushed and the
\* current dict becomes empty.  The fields of the lines after it gather in
\* a dict without Frequency, which is the last record returned when the
\* line is the last FrequencyStart line; when no line after it contributes
\* a field, no record is returned for it.
C22_BareStartIsBoundary ==
    /\ [][ BareStartStep =>
             /\ parsed_data' = IF frequency_info # EmptyDict
                               THEN Append(parsed_data, frequency_info)
                               ELSE parsed_data
             /\ frequency_info' = EmptyDict ]_vars
    /\ [] ( LET b == LastStartWithin(scan_results, line_no - 1)
                m == MergedExpected(scan_results,
                         Contributing(scan_results, b + 1, line_no - 1))
            IN  ( p_pc = "loop" /\ b > 0 /\ IsBareStart(scan_results[b]) )
                => /\ frequency_info = m
                   /\ "Frequency" \notin DOMAIN frequency_info )
    /\ [] ( LET n == Len(scan_results)
                b == LastStartWithin(scan_results, n)
                m == MergedExpected(scan_results,
                         Contributing(scan_results, b + 1, n))
                before == parse_results_info(SubSeq(scan_results, 1, b - 1))
            IN  ( JustReturned /\ b > 0 /\ IsBareStart(scan_results[b]) )
                => LastReturned = IF m = EmptyDict THEN before
                                  ELSE Append(before, m) )

\* C22 witness: a bare SCANNING: line between a frequency and a TSID line;
\* two records are returned, the second with the TSID only.
C22_Witness ==
    /\ JustReturned
    /\ scan_results = << "SCANNING: 489000000 (us-bcast:3)\n",
                         "SCANNING:\n",
                         "TSID: 12345\n" >>
    /\ Len(LastReturned) = 2
    /\ LastReturned[1]["Frequency"] = "489000000"
    /\ LastReturned[2] = ("TSID" :> "12345")


\* Sequence s is the beginning of sequence t.
IsPrefix(s, t) == Len(s) <= Len(t) /\ SubSeq(t, 1, Len(s)) = s

\* C23: a record in the output is never modified: at every step of a call,
\* a line read or the final flush, the output before the step is the
\* beginning of the output after it, and the list returned begins with
\* every earlier output of the call.
C23_OutputOnlyExtended ==
    [][ p_pc = "loop" =>
          /\ IsPrefix(parsed_data, parsed_data')
          /\ returned' # returned => IsPrefix(parsed_data, LastReturned')
      ]_vars

\* C23 witness: a lock line was read after the first record was pushed; the
\* record in the output has no lock field, the current dict has.
C23_Witness ==
    /\ p_pc = "loop"
    /\ line_no = 4
    /\ scan_results = << "SCANNING: 489000000 (us-bcast:3)\n",
                         "SCANNING: 495000000 (us-bcast:4)\n",
                         "LOCK: 8vsb (ss=87 snq=100 seq=100)\n" >>
    /\ parsed_data = << ExpectedStartFields[scan_results[1]] >>
    /\ frequency_info["Lock"] = "8vsb"
    /\ frequency_info["Frequency"] = "495000000"


\* A line of the pool that contributes at least one field.
ContributesField(line) ==
    line \in DOMAIN ExpectedFields \cup DOMAIN ExpectedStartFields

\* C24: every record of the output has at least one field, while the lines
\* are read and in the list returned; and a line list without a line that
\* contributes a field gives the empty list.
C24_NoEmptyRecord ==
    /\ \A k \in DOMAIN parsed_data : parsed_data[k] # EmptyDict
    /\ JustReturned =>
          /\ \A k \in DOMAIN LastReturned : LastReturned[k] # EmptyDict
          /\ ( \A i \in DOMAIN scan_results :
                   ~ ContributesField(scan_results[i]) )
             => LastReturned = << >>

\* C24 witness: a boundary met with an empty current dict, a boundary that
\* pushes a record, and the end of the lines met with an empty current dict
\* give one record.
C24_Witness ==
    /\ JustReturned
    /\ scan_results = << "SCANNING:\n",
                         "SCANNING: 489000000 (us-bcast:3)\n",
                         "SCANNING:\n" >>
    /\ LastReturned = << ExpectedStartFields[scan_results[2]] >>

====
